---- MODULE Spec2Model ----
(***************************************************************************)
(* Model of src/src/App.tsx: the reducer (request-lifecycle state machine  *)
(* with its pagination merge) and the App component that drives it         *)
(* (useState/useReducer/useEffect hooks, the form and "More" handlers, the *)
(* asynchronous onFetchRepos and the GraphQL server it talks to).          *)
(*                                                                         *)
(* Strings the code builds (the error text) are sequences of tokens, so    *)
(* that formatting and joining are computed, not assumed.  A cursor is the *)
(* token <<organization, position of the last edge of the page>>; the      *)
(* JavaScript falsy values undefined/null of a cursor are NoCursor.        *)
(***************************************************************************)
EXTENDS Integers, Sequences, FiniteSets, Bags, TLC

VARIABLES
    usrInput,    \* useState: text of the input box              (App.tsx:112)
    query,       \* useState: the organization being queried     (App.tsx:113)
    state,       \* useReducer: the State tagged union           (App.tsx:114)
    inflight,    \* bag of requests posted and not yet settled   (App.tsx:129)
    mounted,     \* whether the mount effect has run             (App.tsx:157)
    prev,        \* the reducer's state before the last dispatch
    lastAction,  \* the Action of the last dispatch (NoAction before any)
    lastSettled, \* the last call of onFetchRepos that finished: its
                 \* arguments, how the promise settled, what it dispatched
    lastEvent    \* the kind of the last handler that ran

vars == <<usrInput, query, state, inflight, mounted, prev, lastAction,
          lastSettled, lastEvent>>

----------------------------------------------------------------------------
(* Bounds of the model.                                                    *)

MaxInFlight == 2     \* requests that may be pending at once
ReposDefault == 5    \* repositories the server holds for DefaultQuery
ReposOther == 2      \* repositories the server holds for OtherOrg
MaxEdgeLen == 2      \* longest edges list of a drawn reducer input
NumIds == 2          \* distinct repository ids in drawn reducer inputs

(* Program constants.                                                      *)

PageLimit == 4       \* onFetchRepos(query, 4) / onFetchRepos(query, 4, cursor)

DefaultQuery == "the-road-to-learn-react"
OtherOrg == "facebook"
MissingOrg == "no-such-organization"

InputNames == {DefaultQuery, OtherOrg, MissingOrg}
ExistingOrgs == {DefaultQuery, OtherOrg}

NoCursor == <<>>     \* cursor undefined / endCursor null: falsy in `!cursor`

NoAction == [type |-> "none"]

NoneSettled == [kind |-> "none"]

Min(a, b) == IF a < b THEN a ELSE b

SeqsUpTo(S, n) == UNION {[1..k -> S] : k \in 0..n}

----------------------------------------------------------------------------
(* Text.                                                                   *)

RECURSIVE Join(_, _)
Join(strs, sep) ==
    IF strs = <<>> THEN <<>>
    ELSE IF Len(strs) = 1 THEN Head(strs)
    ELSE Head(strs) \o <<sep>> \o Join(Tail(strs), sep)

FormatError(error) == <<"[", error.type, "] ", error.message>>

ErrorsMessage(errors) ==
    Join([i \in 1..Len(errors) |-> FormatError(errors[i])], ", ")

\* Error(message).stack: "Error: <message>" followed by the stack frames.
ErrorStack(message) == <<"Error: ">> \o message \o <<"\n    at onFetchRepos">>

NetworkErrorStack == ErrorStack(<<"Network Error">>)

----------------------------------------------------------------------------
(* The GraphQL server, as the query GET_REPOSITORIES asks it.              *)

RepoCount(organization) ==
    IF organization = DefaultQuery THEN ReposDefault ELSE ReposOther

Url(name) == <<"https://github.com/", name>>

CursorToken(organization, position) == <<organization, position>>

CursorPosition(cursor) == IF cursor = NoCursor THEN 0 ELSE cursor[2]

\* A cursor handed out for another organization's listing.
ForeignCursor(organization, cursor) ==
    cursor # NoCursor /\ cursor[1] # organization

\* repositories(first: limit, after: cursor)
RepositoriesPage(organization, limit, cursor) ==
    LET total == RepoCount(organization)
        from  == Min(CursorPosition(cursor), total)
        to    == Min(from + limit, total)
        edges == [i \in 1..(to - from) |-> <<organization, from + i>>]
    IN  [totalCount |-> total,
         pageInfo   |-> [endCursor   |-> IF to > from
                                         THEN CursorToken(organization, to)
                                         ELSE NoCursor,
                         hasNextPage |-> to < total],
         edges      |-> edges]

OrganizationOf(organization, limit, cursor) ==
    [name         |-> organization,
     url          |-> Url(organization),
     repositories |-> RepositoriesPage(organization, limit, cursor)]

NotFoundErrors(organization) ==
    <<[type |-> "NOT_FOUND",
       message |-> "Could not resolve to an Organization with the login of '"
                   \o organization \o "'."]>>

InvalidCursorErrors ==
    <<[type |-> "INVALID_CURSOR_ARGUMENTS",
       message |-> "The cursor does not appear to be a valid cursor."]>>

\* Errors GraphQL may report beside the data of a query it answered.
PartialErrors ==
    <<[type |-> "FORBIDDEN",
       message |-> "Resource not accessible by personal access token"],
      [type |-> "SERVICE_UNAVAILABLE",
       message |-> "Something went wrong while executing your query."]>>

\* The bodies of the HTTP response the server may send: {data, errors};
\* errors = <<>> is the key being absent (GitHub sends no "errors" key when
\* there are none).  A response may carry both data and errors.  What the
\* server answers to a cursor of another organization's listing is not
\* known: it may refuse it or page by it.
ServerResponses(req) ==
    IF req.organization \notin ExistingOrgs
    THEN {[data   |-> [organization |-> "null"],
           errors |-> NotFoundErrors(req.organization)]}
    ELSE {[data   |-> [organization |->
                         OrganizationOf(req.organization, req.limit, req.cursor)],
           errors |-> e] : e \in {<<>>, PartialErrors}}
         \cup IF ForeignCursor(req.organization, req.cursor)
              THEN {[data   |-> [organization |-> "null"],
                     errors |-> InvalidCursorErrors]}
              ELSE {}

\* getReposOfOrganization: the variables posted with the query.
getReposOfOrganization(organization, limit, cursor) ==
    [organization |-> organization, limit |-> limit, cursor |-> cursor]

----------------------------------------------------------------------------
(* The reducer.                                                            *)

\* R.view(edgeLens, x): x.data.repositories.edges
viewEdges(x) == x.data.repositories.edges

\* Variants of the code used to test that the properties below depend on it.
concatDedup(a, b) ==
    a \o SelectSeq(b, LAMBDA x : \A i \in 1..Len(a) : a[i] # x)

\* R.concat(a)(b)
concat(a, b) == a \o b

\* R.over(edgeLens, R.concat(oldRepos), action)
overEdgesConcat(oldRepos, action) ==
    [action EXCEPT !.data.repositories.edges = concat(oldRepos, @)]

reducerMoreKeepsOldFields(s, action) ==
    CASE action.type = "request" -> [status |-> "loading"]
      [] action.type = "init" -> [status |-> "success", data |-> action.data]
      [] action.type = "more" ->
            IF s.status # "success" THEN s
            ELSE [s EXCEPT !.data.repositories.edges =
                               @ \o action.data.repositories.edges]
      [] action.type = "error" -> [status |-> "error", error |-> action.error]

reducerMoreUnguarded(s, action) ==
    CASE action.type = "request" -> [status |-> "loading"]
      [] action.type = "init" -> [status |-> "success", data |-> action.data]
      [] action.type = "more" ->
            IF s.status # "success"
            THEN [status |-> "success", data |-> action.data]
            ELSE [status |-> "success",
                  data |-> [action.data EXCEPT !.repositories.edges =
                                s.data.repositories.edges \o @]]
      [] action.type = "error" -> [status |-> "error", error |-> action.error]

reducerInitMerges(s, action) ==
    CASE action.type = "request" -> [status |-> "loading"]
      [] action.type \in {"init", "more"} ->
            IF s.status # "success"
            THEN IF action.type = "init"
                 THEN [status |-> "success", data |-> action.data]
                 ELSE s
            ELSE [status |-> "success",
                  data |-> [action.data EXCEPT !.repositories.edges =
                                s.data.repositories.edges \o @]]
      [] action.type = "error" -> [status |-> "error", error |-> action.error]

reducerRequestKeepsPayload(s, action) ==
    CASE action.type = "request" -> [s EXCEPT !.status = "loading"]
      [] action.type = "init" -> [status |-> "success", data |-> action.data]
      [] action.type = "more" ->
            IF s.status # "success" THEN s
            ELSE [status |-> "success",
                  data |-> [action.data EXCEPT !.repositories.edges =
                                s.data.repositories.edges \o @]]
      [] action.type = "error" -> [status |-> "error", error |-> action.error]

reducerErrorKeepsData(s, action) ==
    CASE action.type = "request" -> [status |-> "loading"]
      [] action.type = "init" -> [status |-> "success", data |-> action.data]
      [] action.type = "more" ->
            IF s.status # "success" THEN s
            ELSE [status |-> "success",
                  data |-> [action.data EXCEPT !.repositories.edges =
                                s.data.repositories.edges \o @]]
      [] action.type = "error" ->
            IF s.status = "success" THEN s
            ELSE [status |-> "error", error |-> action.error]

reducer(s, action) ==
    CASE action.type = "request" -> [status |-> "loading"]
      [] action.type = "init" -> [status |-> "success", data |-> action.data]
      [] action.type = "more" ->
            IF s.status # "success" THEN s
            ELSE LET oldRepos == viewEdges(s)
                     merged   == overEdgesConcat(oldRepos, action)
                 IN  [status |-> "success", data |-> merged.data]
      [] action.type = "error" -> [status |-> "error", error |-> action.error]

\* dispatch(action) of useReducer
dispatch(action) ==
    /\ prev' = state
    /\ lastAction' = action
    /\ state' = reducer(state, action)

----------------------------------------------------------------------------
(* The App component.                                                      *)

Init ==
    /\ usrInput = DefaultQuery
    /\ query = DefaultQuery
    /\ state = [status |-> "empty"]
    /\ inflight = EmptyBag
    /\ mounted = FALSE
    /\ prev = [status |-> "empty"]
    /\ lastAction = NoAction
    /\ lastSettled = NoneSettled
    /\ lastEvent = "none"

\* A call of onFetchRepos waiting at its await: its arguments; supplied
\* tells whether the call passed a third argument at all.
PendingCall(search, limit, cursor, supplied) ==
    [organization |-> search, limit |-> limit, cursor |-> cursor,
     supplied |-> supplied]

\* onFetchRepos up to its await: the request is posted.
IssueFetch(search, limit, cursor, supplied) ==
    inflight' = inflight (+) SetToBag({PendingCall(search, limit, cursor, supplied)})

CanIssue == BagCardinality(inflight) < MaxInFlight

\* useEffect(() => onFetchRepos(query, 4), [query]) on mount
MountEffect ==
    /\ ~mounted
    /\ mounted' = TRUE
    /\ IssueFetch(query, PageLimit, NoCursor, FALSE)
    /\ lastEvent' = "mount"
    /\ UNCHANGED <<usrInput, query, state, prev, lastAction, lastSettled>>

\* onChange
OnChange(value) ==
    /\ mounted
    /\ usrInput' = value
    /\ lastEvent' = "change"
    /\ UNCHANGED <<query, state, inflight, mounted, prev, lastAction, lastSettled>>

\* onSubmit: setQuery(usrInput); the effect re-runs only when query changed.
OnSubmit ==
    /\ mounted
    /\ query' = usrInput
    /\ IF usrInput # query
       THEN CanIssue /\ IssueFetch(usrInput, PageLimit, NoCursor, FALSE)
       ELSE UNCHANGED inflight
    /\ lastEvent' = "submit"
    /\ UNCHANGED <<usrInput, state, mounted, prev, lastAction, lastSettled>>

\* Variant: the button rendered in every success state.
MoreButtonShownOnSuccess == state.status = "success"

\* The "More" button is rendered when the state is success and hasNextPage.
MoreButtonShown ==
    /\ state.status = "success"
    /\ state.data.repositories.pageInfo.hasNextPage

\* click on "More": onFetchMoreRepos
OnFetchMoreRepos ==
    /\ mounted
    /\ MoreButtonShown
    /\ state.status = "success"
    /\ CanIssue
    /\ LET cursor == state.data.repositories.pageInfo.endCursor
       IN  IssueFetch(query, PageLimit, cursor, TRUE)
    /\ lastEvent' = "more"
    /\ UNCHANGED <<usrInput, query, state, mounted, prev, lastAction, lastSettled>>

\* Variant: the data is looked at first, the errors only when there is none
\* (the server sends data beside no errors or beside PartialErrors).
CompletionActionDataFirst(req, response) ==
    IF response.errors \notin {<<>>, PartialErrors}
    THEN [type |-> "error", error |-> ErrorStack(ErrorsMessage(response.errors))]
    ELSE IF req.cursor = NoCursor
         THEN [type |-> "init", data |-> response.data.organization]
         ELSE [type |-> "more", data |-> response.data.organization]

\* Variant: the test of the cursor inverted.
CompletionActionInverted(req, response) ==
    IF response.errors # <<>>
    THEN [type |-> "error", error |-> ErrorStack(ErrorsMessage(response.errors))]
    ELSE IF req.cursor # NoCursor
         THEN [type |-> "init", data |-> response.data.organization]
         ELSE [type |-> "more", data |-> response.data.organization]

\* onFetchRepos after its await, the promise resolved with `response`.
CompletionAction(req, response) ==
    IF response.errors # <<>>
    THEN [type |-> "error", error |-> ErrorStack(ErrorsMessage(response.errors))]
    ELSE IF req.cursor = NoCursor
         THEN [type |-> "init", data |-> response.data.organization]
         ELSE [type |-> "more", data |-> response.data.organization]

\* Variant: a response to a query that is no longer the current one is
\* dropped.
CompletionEventsCurrentOnly(req, outcome) ==
    IF req.organization # query THEN <<>>
    ELSE IF outcome.kind = "rejected"
    THEN <<[type |-> "error", error |-> NetworkErrorStack]>>
    ELSE <<CompletionAction(req, outcome.response)>>

\* Variant: no catch block, a throw or a rejection ends the call silently.
CompletionEventsNoCatch(req, outcome) ==
    IF outcome.kind = "rejected" THEN <<>>
    ELSE IF outcome.response.errors # <<>> THEN <<>>
    ELSE <<CompletionAction(req, outcome.response)>>

\* The actions onFetchRepos dispatches, in order, once its promise settled:
\* the try block after the await, or the catch block.
CompletionEvents(req, outcome) ==
    IF outcome.kind = "rejected"
    THEN <<[type |-> "error", error |-> NetworkErrorStack]>>
    ELSE <<CompletionAction(req, outcome.response)>>

RECURSIVE Reduce(_, _)
Reduce(s, events) ==
    IF events = <<>> THEN s
    ELSE Reduce(reducer(s, Head(events)), Tail(events))

\* dispatch of each of the events in turn
dispatchAll(events) ==
    IF events = <<>>
    THEN UNCHANGED <<state, prev, lastAction>>
    ELSE /\ prev' = Reduce(state, SubSeq(events, 1, Len(events) - 1))
         /\ lastAction' = events[Len(events)]
         /\ state' = Reduce(state, events)

\* onFetchRepos after its await.
Settle(req, outcome) ==
    /\ BagIn(req, inflight)
    /\ inflight' = inflight (-) SetToBag({req})
    /\ LET events == CompletionEvents(req, outcome)
       IN  /\ dispatchAll(events)
           /\ lastSettled' = [kind |-> outcome.kind, req |-> req,
                              outcome |-> outcome, events |-> events]
    /\ lastEvent' = "settle"
    /\ UNCHANGED <<usrInput, query, mounted>>

\* the promise resolved with a response of the server
Resolve(req) ==
    \E response \in ServerResponses(
                       getReposOfOrganization(req.organization, req.limit, req.cursor)) :
        Settle(req, [kind |-> "resolved", response |-> response])

\* the promise rejected (transport failure)
Reject(req) == Settle(req, [kind |-> "rejected"])

Next ==
    \/ MountEffect
    \/ \E value \in InputNames : OnChange(value)
    \/ OnSubmit
    \/ OnFetchMoreRepos
    \/ \E req \in BagToSet(inflight) : Resolve(req)
    \/ \E req \in BagToSet(inflight) : Reject(req)

Spec == Init /\ [][Next]_vars

----------------------------------------------------------------------------
(* The reducer as a pure function: the state and the action are drawn from *)
(* bounded sets and the reducer is applied once.                           *)

EdgeInputs == SeqsUpTo({DefaultQuery} \X (1..NumIds), MaxEdgeLen)

DataInputs ==
    {[name         |-> n,
      url          |-> Url(n),
      repositories |-> [totalCount |-> t,
                        pageInfo   |-> [endCursor |-> c, hasNextPage |-> h],
                        edges      |-> e]] :
        n \in ExistingOrgs, t \in {ReposOther, ReposDefault},
        c \in {NoCursor, CursorToken(DefaultQuery, PageLimit)}, h \in BOOLEAN, e \in EdgeInputs}

ErrorInputs ==
    {NetworkErrorStack, ErrorStack(ErrorsMessage(NotFoundErrors(MissingOrg)))}

StateInputs ==
    {[status |-> "empty"], [status |-> "loading"]}
    \cup {[status |-> "error", error |-> m] : m \in ErrorInputs}
    \cup {[status |-> "success", data |-> d] : d \in DataInputs}

InitReducer ==
    /\ usrInput = DefaultQuery
    /\ query = DefaultQuery
    /\ state \in StateInputs
    /\ inflight = EmptyBag
    /\ mounted = FALSE
    /\ prev = state
    /\ lastAction = NoAction
    /\ lastSettled = NoneSettled
    /\ lastEvent = "none"

Apply(action) ==
    /\ lastAction = NoAction
    /\ dispatch(action)
    /\ UNCHANGED <<usrInput, query, inflight, mounted, lastSettled, lastEvent>>

ApplyRequest == Apply([type |-> "request"])

ApplyInit == \E d \in DataInputs : Apply([type |-> "init", data |-> d])

ApplyMore == \E d \in DataInputs : Apply([type |-> "more", data |-> d])

ApplyError == \E m \in ErrorInputs : Apply([type |-> "error", error |-> m])

NextReducer == ApplyRequest \/ ApplyInit \/ ApplyMore \/ ApplyError

SpecReducer == InitReducer /\ [][NextReducer]_vars

----------------------------------------------------------------------------
(* Properties of the reducer, checked under SpecReducer.  prev is the      *)
(* state the last action was applied to, state the result.                 *)

MoreOnSuccess == lastAction.type = "more" /\ prev.status = "success"

\* C2: a 'more' action in a success state yields a success state whose
\* edges are the previous edges followed by the action's edges, element by
\* element: nothing removed, reordered or deduplicated.
C2_MoreAppendsEntries ==
    MoreOnSuccess =>
        /\ state.status = "success"
        /\ LET old == prev.data.repositories.edges
               new == lastAction.data.repositories.edges
               got == state.data.repositories.edges
           IN  /\ Len(got) = Len(old) + Len(new)
               /\ \A i \in 1..Len(old) : got[i] = old[i]
               /\ \A j \in 1..Len(new) : got[Len(old) + j] = new[j]

\* merge([a,b],[a,b]) = [a,b,a,b] has happened.
C2_Witness ==
    /\ MoreOnSuccess
    /\ prev.data.repositories.edges = lastAction.data.repositories.edges
    /\ Len(prev.data.repositories.edges) = 2
    /\ prev.data.repositories.edges[1] # prev.data.repositories.edges[2]
    /\ Len(state.data.repositories.edges) = 4

\* C3: after a 'more' action in a success state, name, url, totalCount,
\* endCursor and hasNextPage are those of the action's data.
C3_MoreTakesNewFields ==
    MoreOnSuccess =>
        /\ state.data.name = lastAction.data.name
        /\ state.data.url = lastAction.data.url
        /\ state.data.repositories.totalCount
              = lastAction.data.repositories.totalCount
        /\ state.data.repositories.pageInfo.endCursor
              = lastAction.data.repositories.pageInfo.endCursor
        /\ state.data.repositories.pageInfo.hasNextPage
              = lastAction.data.repositories.pageInfo.hasNextPage
        /\ DOMAIN state.data = DOMAIN lastAction.data

\* A 'more' whose data differs from the previous state's in every field.
C3_Witness ==
    /\ MoreOnSuccess
    /\ prev.data.name # lastAction.data.name
    /\ prev.data.url # lastAction.data.url
    /\ prev.data.repositories.totalCount
          # lastAction.data.repositories.totalCount
    /\ prev.data.repositories.pageInfo.endCursor
          # lastAction.data.repositories.pageInfo.endCursor
    /\ prev.data.repositories.pageInfo.hasNextPage
          # lastAction.data.repositories.pageInfo.hasNextPage
    /\ prev.data.repositories.edges # <<>>

\* C4: a 'more' action in a state that is not success (empty, loading or
\* error) leaves the state as it was, tag and payload.
C4_MoreNoOpUnlessSuccess ==
    (lastAction.type = "more" /\ prev.status # "success") => state = prev

\* A 'more' with a non-empty page applied to an error state.
C4_Witness ==
    /\ lastAction.type = "more"
    /\ lastAction.data.repositories.edges # <<>>
    /\ prev.status = "error"
    /\ state.status = "error"

\* C5: an 'init' action in any state yields success with exactly the
\* action's data; the edges are the action's, none of the previous state's.
C5_InitReplaces ==
    lastAction.type = "init" =>
        /\ state.status = "success"
        /\ DOMAIN state = {"status", "data"}
        /\ state.data = lastAction.data
        /\ state.data.repositories.edges = lastAction.data.repositories.edges

\* An 'init' applied to a success state holding other, accumulated edges.
C5_Witness ==
    /\ lastAction.type = "init"
    /\ prev.status = "success"
    /\ Len(prev.data.repositories.edges) = 2
    /\ Len(lastAction.data.repositories.edges) = 1
    /\ \A i \in 1..2 :
          prev.data.repositories.edges[i] # lastAction.data.repositories.edges[1]
    /\ state.status = "success"

\* C6: a 'request' action in any state yields loading with no payload.
C6_RequestYieldsLoading ==
    lastAction.type = "request" =>
        /\ state.status = "loading"
        /\ DOMAIN state = {"status"}

\* A 'request' applied to a success state that held edges.
C6_Witness ==
    /\ lastAction.type = "request"
    /\ prev.status = "success"
    /\ prev.data.repositories.edges # <<>>
    /\ state.status = "loading"

\* C7: an 'error' action with message m in any state yields error with
\* that message and nothing else; data of a success state is discarded.
C7_ErrorYieldsFailed ==
    lastAction.type = "error" =>
        /\ state.status = "error"
        /\ DOMAIN state = {"status", "error"}
        /\ state.error = lastAction.error

\* An 'error' applied to a success state that held accumulated edges.
C7_Witness ==
    /\ lastAction.type = "error"
    /\ prev.status = "success"
    /\ Len(prev.data.repositories.edges) = 2
    /\ state.status = "error"

----------------------------------------------------------------------------
(* Properties of the App, checked under Spec.                              *)

\* C1: every step that issues a query (a request is added to those in
\* flight) leaves the state machine in loading.
C1_IssueEntersLoading ==
    [][BagCardinality(inflight') > BagCardinality(inflight)
          => state'.status = "loading"]_vars

\* The state holds edges of its own organization's listing only: every page
\* in it was served for the organization the state names.
OwnListingOnly ==
    \A i \in 1..Len(state.data.repositories.edges) :
        state.data.repositories.edges[i][1] = state.data.name

\* C8: in every success state built from pages of the organization's own
\* listing (the server reporting the true totalCount and serving disjoint
\* consecutive pages of it), the number of accumulated edges is at most the
\* state's totalCount.
C8_EntriesWithinTotal ==
    (state.status = "success" /\ OwnListingOnly) =>
        Len(state.data.repositories.edges) <= state.data.repositories.totalCount

\* C9: in every success state all edges come from one query session: no
\* edge of another organization's query is mixed into the sequence.
C9_EntriesOfOneQuery ==
    state.status = "success" =>
        \A i, j \in 1..Len(state.data.repositories.edges) :
            state.data.repositories.edges[i][1]
                = state.data.repositories.edges[j][1]

\* C10: every 'more' action that changed the state was applied to a
\* success state whose hasNextPage was true.
C10_MoreOnlyWithNextPage ==
    (lastAction.type = "more" /\ state # prev) =>
        /\ prev.status = "success"
        /\ prev.data.repositories.pageInfo.hasNextPage

\* A call of onFetchRepos with a cursor argument is added to those in flight.
MoreIssued ==
    \E r \in BagToSet(inflight') :
        r.supplied /\ CopiesIn(r, inflight') > CopiesIn(r, inflight)

MoreOffered ==
    /\ state.status = "success"
    /\ state.data.repositories.pageInfo.hasNextPage

\* C11: a 'more' request is issued only from a success state whose
\* hasNextPage is true (never from empty, loading, error, or success without
\* a next page), and in every such state the "More" click can be taken.
C11_MoreExactlyWhenOffered ==
    [][/\ MoreIssued => MoreOffered
       /\ (mounted /\ MoreOffered /\ CanIssue) => ENABLED OnFetchMoreRepos]_vars

\* "More" was clicked in a success state with a next page and its request
\* is in flight.
C11_Witness ==
    /\ lastEvent = "more"
    /\ MoreOffered
    /\ \E r \in BagToSet(inflight) :
          r.supplied /\ r.cursor = state.data.repositories.pageInfo.endCursor

ResolvedWithErrors ==
    /\ lastSettled.kind = "resolved"
    /\ lastSettled.outcome.response.errors # <<>>

\* C12: when the response carries errors, with or without data, the one
\* action dispatched is 'error': the state becomes error and holds no data,
\* and neither 'init' nor 'more' is dispatched for that response.
C12_ErrorsTakePrecedence ==
    ResolvedWithErrors =>
        /\ \A i \in 1..Len(lastSettled.events) :
              lastSettled.events[i].type \notin {"init", "more"}
        /\ lastAction.type = "error"
        /\ state.status = "error"
        /\ DOMAIN state = {"status", "error"}

\* A response carrying both data and errors arrived in a success state.
C12_Witness ==
    /\ lastSettled.kind = "resolved"
    /\ lastSettled.outcome.response.errors = PartialErrors
    /\ lastSettled.outcome.response.data.organization.name
          = lastSettled.req.organization
    /\ prev.status = "success"
    /\ state.status = "error"

\* C13: when the response carries errors, the state is error and its text
\* is exactly the entries "[type] message" joined into one string, with
\* nothing before or after.
C13_ErrorTextIsJoinedMessages ==
    ResolvedWithErrors =>
        /\ state.status = "error"
        /\ state.error = ErrorsMessage(lastSettled.outcome.response.errors)

\* C14: a step in which the promise of an issued query settles (the query
\* leaves those in flight) settles exactly one query and dispatches exactly
\* one action for it, one of 'init', 'more' and 'error'; and the reducer
\* state changes in no other step.
C14_ExactlyOneCompletionEvent ==
    [][/\ BagCardinality(inflight') < BagCardinality(inflight) =>
            /\ BagCardinality(inflight') = BagCardinality(inflight) - 1
            /\ inflight = inflight' (+) SetToBag({lastSettled'.req})
            /\ Len(lastSettled'.events) = 1
            /\ lastSettled'.events[1].type \in {"init", "more", "error"}
            /\ lastAction' = lastSettled'.events[1]
            /\ prev' = state
            /\ state' = reducer(state, lastAction')
       /\ BagCardinality(inflight') >= BagCardinality(inflight) =>
            UNCHANGED <<state, prev, lastAction, lastSettled>>]_vars

\* A query whose promise rejected has delivered its one 'error' action
\* while another query is still in flight.
C14_Witness ==
    /\ lastSettled.kind = "rejected"
    /\ Len(lastSettled.events) = 1
    /\ lastAction.type = "error"
    /\ state.status = "error"
    /\ BagCardinality(inflight) > 0

ResolvedWithoutErrors ==
    /\ lastSettled.kind = "resolved"
    /\ lastSettled.outcome.response.errors = <<>>

\* C15: for a query answered without errors the action dispatched is
\* 'more' exactly when the call passed a cursor argument and 'init' exactly
\* when it passed none, whatever endCursor the "More" click took from the
\* state.
C15_MoreIffCursorSupplied ==
    ResolvedWithoutErrors =>
        /\ lastAction.type = "more" <=> lastSettled.req.supplied
        /\ lastAction.type = "init" <=> ~lastSettled.req.supplied

\* A query issued by the "More" click was answered with the last page and
\* completed as 'more'.
C15_Witness ==
    /\ ResolvedWithoutErrors
    /\ lastSettled.req.supplied
    /\ lastAction.type = "more"
    /\ ~lastSettled.outcome.response.data.organization.repositories.pageInfo.hasNextPage

\* C16: the first-page response that arrives last determines the state,
\* whichever query was issued last: once a fresh query is answered without
\* errors the state is success with that response's organization, also when
\* the query is no longer the current one.
C16_LastArrivedFirstPageWins ==
    (ResolvedWithoutErrors /\ ~lastSettled.req.supplied) =>
        /\ state.status = "success"
        /\ state.data = lastSettled.outcome.response.data.organization
        /\ state.data.name = lastSettled.req.organization

\* Two fresh queries were in flight; the newer one's result was in the
\* state and the older one's first page, arriving last, has replaced it;
\* both responses have been processed.
C16_Witness ==
    /\ BagCardinality(inflight) = 0
    /\ query = OtherOrg
    /\ lastAction.type = "init"
    /\ ~lastSettled.req.supplied
    /\ lastSettled.req.organization = DefaultQuery
    /\ prev.status = "success"
    /\ prev.data.name = OtherOrg
    /\ state.status = "success"
    /\ state.data.name = DefaultQuery

\* C17: in every success state all edges are distinct repositories: no page
\* of the server has been merged twice.
C17_EntriesDistinct ==
    state.status = "success" =>
        \A i, j \in 1..Len(state.data.repositories.edges) :
            i # j => state.data.repositories.edges[i]
                        # state.data.repositories.edges[j]

\* C18: every 'more' request in flight asks for the organization whose
\* listing produced the cursor it carries.
C18_MoreForCursorsOrganization ==
    \A r \in BagToSet(inflight) :
        r.supplied => ~ForeignCursor(r.organization, r.cursor)

\* C19: every step in which the form is submitted issues a fresh query
\* (no cursor) for the submitted name.  (A submit directly after a submit
\* changes nothing at all, so the steps to look at are those that make
\* "submit" the last event.)
C19_SubmitIssuesFreshQuery ==
    [][(lastEvent # "submit" /\ lastEvent' = "submit") =>
          inflight' = inflight
                        (+) SetToBag({PendingCall(usrInput, PageLimit, NoCursor, FALSE)})]_vars

====
